---------------------------- MODULE Spec2Model ----------------------------
(***************************************************************************)
(* The DFU object-transfer engine of nordicsemi/dfu/dfu_transport_bleak.py *)
(* (class DfuDevice): send_init_packet, send_firmware, __stream_data,      *)
(* _validate_crc and cp_cmd, run against a peripheral whose answers are    *)
(* not under the host's control.                                           *)
(*                                                                         *)
(* The engine is one sequential coroutine.  pc is its position, one value  *)
(* per await it can be suspended at; the peripheral acts in the *_wait     *)
(* positions, where it answers the outstanding control-point request with  *)
(* a SUCCESS response carrying any payload, or the request fails (6 s      *)
(* timeout, malformed frame, non-success result code).                     *)
(*                                                                         *)
(* Names: dfu_transport_bleak.py imports only BLE_UUID from ble_common and *)
(* takes op_txd_pack / op_rxd_unpack from nordicsemi.dfu.operation.  The   *)
(* model reads them as what ble_common.py defines: cp_txd_pack,            *)
(* cp_rxd_unpack, and the exception classes ValidationException,           *)
(* NrfDfuOperationError and NordicSemiException.                           *)
(*                                                                         *)
(* Four specifications: Spec is one call of send_init_packet or            *)
(* send_firmware; CpSpec is one cp_cmd call, from the notifications that   *)
(* arrive to what cp_rxd_unpack makes of their bytes; TransportSpec has    *)
(* the behaviours of both; PkgSpec is send_image_package, the operations   *)
(* of Spec run inside it.  Each leaves the variables of the others at      *)
(* rest.                                                                   *)
(***************************************************************************)
EXTENDS Integers, Sequences, FiniteSets, TLC

\* ------------------------------------------------------------- bounds
\* Longest init packet / firmware image, in bytes.
MaxLen == 4
\* Largest max_size a SELECT response reports.
MaxObjSize == 4
\* Largest packet_size (the constructor sets 20; the bytes of the model are
\* few, so the fragment size is scaled with them).
MaxPacket == 2
\* Largest PRN setting (the constructor sets 0).
MaxPrn == 2

\* self.RETRIES_NUMBER
RETRIES_NUMBER == 3

\* ------------------------------------------------------------- CRC-32
\* binascii.crc32 with "& 0xFFFFFFFF": the zlib CRC-32, reflected polynomial
\* 0xEDB88320, initial value and final xor 0xFFFFFFFF.  A 32-bit word is the
\* set of the positions of its one bits (bit 0 the least significant).
Word == 0..31

BitsOf(byte) == {b \in 0..7 : (byte \div (2^b)) % 2 = 1}

Xor(a, b) == (a \ b) \cup (b \ a)

Shr1(a) == {b - 1 : b \in a \ {0}}

\* 0xEDB88320
CrcPoly == {5, 8, 9, 15, 19, 20, 21, 23, 24, 26, 27, 29, 30, 31}

RECURSIVE CrcBits(_, _)
CrcBits(c, n) ==
    IF n = 0 THEN c
    ELSE CrcBits(IF 0 \in c THEN Xor(Shr1(c), CrcPoly) ELSE Shr1(c), n - 1)

RECURSIVE CrcRaw(_, _)
CrcRaw(bytes, c) ==
    IF bytes = <<>> THEN c
    ELSE CrcRaw(Tail(bytes), CrcBits(Xor(c, BitsOf(Head(bytes))), 8))

\* crc32(bytes, start) & 0xFFFFFFFF
crc32(bytes, start) == Word \ CrcRaw(bytes, Word \ start)

\* The CRC of no bytes, and the default crc=0 of __stream_data.
Zero == {}

\* ------------------------------------------------------------- bytes
Min(a, b) == IF a <= b THEN a ELSE b

\* Python's s[a:b] for 0 <= a, 0 <= b: both ends are clipped to len(s).
Slice(s, a, b) == SubSeq(s, Min(a, Len(s)) + 1, Min(b, Len(s)))

\* Python's s[a:] and s[:b].
SliceFrom(s, a) == Slice(s, a, Len(s))
SliceTo(s, b) == Slice(s, 0, b)

\* The file contents send_image_package reads: n bytes, all different, so
\* that every slice of a payload is told from every other.
FileBytes(n) == [j \in 1..n |-> j]

Payloads == {FileBytes(n) : n \in 0..MaxLen}

\* ------------------------------------------------------------- wire
\* OBJ_TYPE and OP_CODE members, by name.
COMMAND == "COMMAND"
DATA == "DATA"
OBJECT_SELECT == "OBJECT_SELECT"
OBJECT_CREATE == "OBJECT_CREATE"
OBJECT_EXECUTE == "OBJECT_EXECUTE"
CRC_GET == "CRC_GET"

\* What cp_txd_pack packs: the opcode and its arguments.
Request(opcode, args) == [ch |-> "cp", op |-> opcode, arg |-> args]

\* One write to the packet-data characteristic.
Packet(bytes) == [ch |-> "dp", op |-> "WRITE", arg |-> bytes]

\* ------------------------------------------------------------- peripheral
\* A wrong CRC (0xDEADBEEF): the CRC of no prefix of a modelled payload.
BadCrc == {0, 1, 2, 3, 5, 6, 7, 9, 10, 11, 12, 13, 15, 16, 18, 19, 21, 23, 25,
           26, 27, 28, 30, 31}

\* Offsets the peripheral may report: it may hold more bytes than the
\* payload has (a longer image left by an earlier session).
DevOffsets == 0..(MaxLen + 1)

\* The payload of a SUCCESS response to OBJECT_SELECT, as cp_rxd_unpack
\* returns it.  max_size is the capacity of an object and positive; an
\* empty object has the CRC of no bytes; a non-empty one holds a prefix of
\* this payload (CRC equal to the host's) or something else.
DeviceCrcs(p, o) ==
    IF o = 0 THEN {Zero} ELSE {crc32(SliceTo(p, o), Zero), BadCrc}

SelectResponses(p) ==
    UNION {[max_size : 1..MaxObjSize, offset : {o}, crc : DeviceCrcs(p, o)] :
              o \in DevOffsets}

\* The payload of a SUCCESS response to CRC_GET while the host's cursor is
\* (o, c): any offset, and the host's CRC or a wrong one.
CrcResponses(o, c) == [offset : DevOffsets \cup {o}, crc : {c, BadCrc}]


\* ------------------------------------------------------------- state
VARIABLES
    phase,        \* "init": send_init_packet was called; "firmware": send_firmware
    payload,      \* init_packet / firmware, the argument of the call
    packet_size,  \* self.packet_size
    prn,          \* self.prn
    pc,           \* the await the coroutine is at, "done" once the call ended
    site,         \* the try statement the engine is in: init_recover, init_loop,
                  \* fw_recover, fw_loop ("none" before the recovery step)
    outcome,      \* "running", "returned", or the class of the exception raised
    response,     \* the local dict `response` of the running operation
    i,            \* send_firmware: the page loop's i
    r,            \* the retry loop's r
    data,         \* __stream_data: data
    crc,          \* __stream_data: crc
    offset,       \* __stream_data: offset
    pos,          \* __stream_data: the fragment loop's i
    current_pnr,  \* __stream_data: current_pnr
    wire,         \* every write completed so far, control point and data point
    lastCp,       \* the last control-point request and how it ended
    dev,          \* the (offset, crc) the peripheral reported last
    selected,     \* the SELECT response as it arrived (response is rewritten)
    sbase,        \* Len(wire) when the running __stream_data call began
    gaveUp,       \* an object was left after an attempt that failed validation
    mismatched,   \* some CRC_GET response made _validate_crc raise
    crc0,         \* the crc the running __stream_data call was started with
    offset0,      \* the offset the running __stream_data call was started with
    inflight,     \* the data-point writes issued and not yet confirmed
    tx_opcode,    \* cp_cmd: opcode
    rxdata,       \* cp_cmd: rxdata, the bytes response_handler collected
    evt,          \* self._evt_opcmd is set
    ignored,      \* response_handler has logged "unexpected notify response"
    unpacked,     \* how the cp_cmd call ended, with the payload it returned
    subscribed,   \* cp_cmd: start_notify(cpuuid, response_handler) has completed
    written,      \* cp_cmd: write_gatt_char(cpuuid, txdata) has completed
    last,         \* the sender of the notification handled last
    cpseen,       \* the control point has notified since the request was written
    cpdata,       \* the bytes the control point has notified
    images,       \* imgpkg.images, the names in the order of the dict
    ipos,         \* send_image_package: how many images the loop has taken
    pkgpc,        \* send_image_package: the statement it is at
    pkgout,       \* "running", "returned" or the exception send_image_package raised
    phases        \* the calls send_image_package has made, <<name, phase>> each

config == <<phase, payload, packet_size, prn>>
strm == <<data, crc, offset, pos, current_pnr, sbase, crc0, offset0, inflight>>
\* The state of the engine, and the state of one cp_cmd call looked at
\* byte by byte (CpSpec).
engine == <<phase, payload, packet_size, prn, pc, site, outcome, response, i,
            r, data, crc, offset, pos, current_pnr, wire, lastCp, dev,
            selected, sbase, gaveUp, mismatched, crc0, offset0, inflight>>
\* What the peripheral has notified during the cp_cmd call.
heard == <<last, cpseen, cpdata>>
rqst == <<tx_opcode, rxdata, evt, ignored, unpacked, subscribed, written,
          heard>>
\* The state of send_image_package (PkgSpec).
pkg == <<images, ipos, pkgpc, pkgout, phases>>
vars == <<engine, rqst, pkg>>

\* `response` before OBJECT_SELECT was answered (no device reports max_size 0).
NoResponse == [max_size |-> 0, offset |-> 0, crc |-> Zero]
NoReport == [offset |-> -1, crc |-> Zero]
NoRequest == [op |-> "none", result |-> "none"]

\* No notification was handled.
NoSender == [form |-> "none", n |-> 0]

\* No cp_cmd call is looked at byte by byte.
NoResult == [error |-> "none", payload |-> <<>>]
NoCall ==
    /\ tx_opcode = "none"
    /\ rxdata = <<>>
    /\ evt = FALSE
    /\ ignored = FALSE
    /\ unpacked = NoResult
    /\ subscribed = FALSE
    /\ written = FALSE
    /\ last = NoSender
    /\ cpseen = FALSE
    /\ cpdata = <<>>

\* The operation is looked at alone, not as part of a package.
NoPackage ==
    /\ images = <<>>
    /\ ipos = 0
    /\ pkgpc = "none"
    /\ pkgout = "running"
    /\ phases = <<>>

\* DfuDevice.__init__ followed by the call send_init_packet(payload) or
\* send_firmware(payload) that send_image_package makes.
Init ==
    /\ phase \in {"init", "firmware"}
    /\ payload \in Payloads
    /\ packet_size \in 1..MaxPacket
    /\ prn \in 0..MaxPrn
    /\ pc = "select"
    /\ site = "none"
    /\ outcome = "running"
    /\ response = NoResponse
    /\ i = 0
    /\ r = 0
    /\ data = <<>>
    /\ crc = Zero
    /\ offset = 0
    /\ pos = 0
    /\ current_pnr = 0
    /\ wire = <<>>
    /\ lastCp = NoRequest
    /\ dev = NoReport
    /\ selected = NoResponse
    /\ sbase = 0
    /\ gaveUp = FALSE
    /\ mismatched = FALSE
    /\ crc0 = Zero
    /\ offset0 = 0
    /\ inflight = <<>>
    /\ NoCall
    /\ NoPackage

\* ------------------------------------------------------------- control
Goto(p, s) == pc' = p /\ site' = s /\ outcome' = outcome

\* The operation returns to send_image_package.
Return == pc' = "done" /\ site' = site /\ outcome' = "returned"

\* An exception no handler of the operation catches.
Raise(e) == pc' = "done" /\ site' = site /\ outcome' = e

\* The call self.__stream_data(data=d, crc=c, offset=o) made in try block s,
\* up to the first await of the fragment loop.
StartStream(d, c, o, s) ==
    /\ data' = d
    /\ crc' = c
    /\ offset' = o
    /\ pos' = 0
    /\ current_pnr' = 0
    /\ sbase' = Len(wire)
    /\ crc0' = c
    /\ offset0' = o
    /\ inflight' = inflight
    /\ Goto("stream", s)

\* ------------------------------------------------------------- cp_cmd
\* cp_cmd up to its wait: the request is packed, the notification handler
\* subscribed and the request written to the control point (the two awaits
\* are taken apart in CpSpec).
cp_cmd(opcode, args) ==
    /\ wire' = Append(wire, Request(opcode, args))
    /\ lastCp' = [op |-> opcode, result |-> "pending"]

\* cp_cmd from its wait on: the notification arrived in time and
\* op_rxd_unpack accepted it.
Answered ==
    /\ lastCp' = [lastCp EXCEPT !.result = "SUCCESS"]
    /\ wire' = wire

WaitPcs == {"select_wait", "create_wait", "validate_wait", "final_wait",
            "execute_wait"}

\* The exceptions cp_cmd raises: NrfDfuOperationError when no notification
\* comes within 6 s or cp_rxd_parse_header rejects the frame, struct.error
\* when the payload has not the size of its format.
CpErrors == {"NrfDfuOperationError", "struct.error"}

\* CpFails with the failure handled like a failed validation inside the
\* retry loop (`except NordicSemiException`): the object is created again.
CpFails_Retried ==
    /\ pc \in WaitPcs
    /\ lastCp' = [lastCp EXCEPT !.result = "error"]
    /\ \E e \in CpErrors :
         IF site \in {"init_loop", "fw_loop"} /\ e = "NrfDfuOperationError"
           THEN Goto("create", site)
           ELSE Raise(e)
    /\ UNCHANGED <<rqst, pkg, config, strm, response, i, r, wire, dev, selected, gaveUp,
                   mismatched>>

\* cp_cmd from its wait on, the other way.  Neither exception is caught
\* anywhere in the engine.
CpFails ==
    /\ pc \in WaitPcs
    /\ lastCp' = [lastCp EXCEPT !.result = "error"]
    /\ \E e \in CpErrors : Raise(e)
    /\ UNCHANGED <<rqst, pkg, config, strm, response, i, r, wire, dev, selected, gaveUp,
                   mismatched>>

\* ------------------------------------------------------------- retry loop
\* for r in range(self.RETRIES_NUMBER): try: ... except ValidationException:
\* pass / break / else: raise.  What the loop does once the try statement of
\* attempt rr is over, `failed` telling whether it ended in the except
\* clause: the break stands after the try statement, not inside it.
RetryStep(rr, failed) == "break"

\* The page loop of send_firmware, `for i in range(response["offset"],
\* len(firmware), response["max_size"])`, at the value ii: the next page is
\* created, or the loop and with it send_firmware is over.
EnterPage(ii) ==
    /\ i' = ii
    /\ r' = 0
    /\ IF ii < Len(payload) THEN Goto("create", "fw_loop") ELSE Return

\* The else clause of the retry loop: raise NordicSemiException(...).
FailedToSend ==
    IF phase = "init" THEN "NordicSemiException: Failed to send init packet"
    ELSE "NordicSemiException: Failed to send firmware"

\* The retry loop is left by its break.
LeaveRetryLoop ==
    IF phase = "init" THEN Return /\ UNCHANGED <<i, r>>
    ELSE EnterPage(i + response.max_size)

\* The end of one attempt of the retry loop.
AttemptEnds(failed) ==
    LET step == RetryStep(r, failed) IN
    CASE step = "break" ->
            /\ gaveUp' = (gaveUp \/ failed)
            /\ LeaveRetryLoop
      [] step = "retry" ->
            /\ gaveUp' = gaveUp
            /\ r' = r + 1
            /\ i' = i
            /\ Goto("create", site)
      [] OTHER ->
            /\ gaveUp' = TRUE
            /\ Raise(FailedToSend)
            /\ UNCHANGED <<i, r>>

\* ------------------------------------------------------------- select
ObjType == IF phase = "init" THEN COMMAND ELSE DATA

\* cp_cmd(OP_CODE.OBJECT_SELECT, object_type=...), the first statement of
\* both operations.
Select ==
    /\ pc = "select"
    /\ cp_cmd(OBJECT_SELECT, <<ObjType>>)
    /\ Goto("select_wait", site)
    /\ UNCHANGED <<rqst, pkg, config, strm, response, i, r, dev, selected, gaveUp,
                   mismatched>>

\* init_try_to_recover taking a complete init packet on the device for an
\* invalid one (>= for >).
init_try_to_recover_Strict(rsp) ==
    IF rsp.offset = 0 \/ rsp.offset >= Len(payload) THEN "False"
    ELSE IF crc32(SliceTo(payload, rsp.offset), Zero) # rsp.crc THEN "False"
    ELSE "stream"

\* send_init_packet.try_to_recover up to its first await: "False" (fresh
\* upload), "stream" (send the missing part) or "execute".
init_try_to_recover(rsp) ==
    IF rsp.offset = 0 \/ rsp.offset > Len(payload) THEN "False"
    ELSE IF crc32(SliceTo(payload, rsp.offset), Zero) # rsp.crc THEN "False"
    ELSE IF Len(payload) > rsp.offset THEN "stream"
    ELSE "execute"

\* InitTooLong with the length check left out.
InitTooLong_Unchecked(rsp) == FALSE

\* The guard of send_init_packet: "Init command is too long".
InitTooLong(rsp) == Len(payload) > rsp.max_size

\* send_init_packet from the SELECT response to the next await.
InitSelected ==
    /\ pc = "select_wait"
    /\ phase = "init"
    /\ \E rsp \in SelectResponses(payload) :
        /\ Answered
        /\ response' = rsp
        /\ selected' = rsp
        /\ dev' = [offset |-> rsp.offset, crc |-> rsp.crc]
        /\ IF InitTooLong(rsp)
             THEN Raise("Exception") /\ UNCHANGED strm
             ELSE LET plan == init_try_to_recover(rsp) IN
                  CASE plan = "stream" ->
                          StartStream(SliceFrom(payload, rsp.offset),
                                      crc32(SliceTo(payload, rsp.offset), Zero),
                                      rsp.offset, "init_recover")
                    [] plan = "execute" ->
                          Goto("execute", "init_recover") /\ UNCHANGED strm
                    [] OTHER ->
                          Goto("create", "init_loop") /\ UNCHANGED strm
    /\ UNCHANGED <<rqst, pkg, config, i, r, gaveUp, mismatched>>

\* send_firmware.try_to_recover: the rewind of a corrupted tail.
remainder(rsp) == rsp.offset % rsp.max_size

\* Rewind by the remainder alone: nothing is removed on a page boundary.
Rewind_RemainderOnly(rsp) ==
    LET off == rsp.offset - remainder(rsp)
    IN  [rsp EXCEPT !.offset = off, !.crc = crc32(SliceTo(payload, off), Zero)]

Rewind(rsp) ==
    LET back == IF remainder(rsp) # 0 THEN remainder(rsp) ELSE rsp.max_size
        off == rsp.offset - back
    IN  [rsp EXCEPT !.offset = off, !.crc = crc32(SliceTo(payload, off), Zero)]

\* fw_try_to_recover without `remainder != 0`: on a page boundary the next
\* bytes are streamed into the page that is full.
fw_try_to_recover_NoRemainder(rsp) ==
    IF rsp.offset = 0 THEN "return"
    ELSE IF crc32(SliceTo(payload, rsp.offset), Zero) # rsp.crc THEN "rewind"
    ELSE IF rsp.offset # Len(payload) THEN "stream"
    ELSE "execute"

\* send_firmware.try_to_recover up to its first await: "return" (nothing
\* to recover), "rewind", "stream" (send the rest of the page) or "execute".
fw_try_to_recover(rsp) ==
    IF rsp.offset = 0 THEN "return"
    ELSE IF crc32(SliceTo(payload, rsp.offset), Zero) # rsp.crc THEN "rewind"
    ELSE IF remainder(rsp) # 0 /\ rsp.offset # Len(payload) THEN "stream"
    ELSE "execute"

\* to_send of send_firmware.try_to_recover.
to_send(rsp) ==
    Slice(payload, rsp.offset, rsp.offset + rsp.max_size - remainder(rsp))

\* send_firmware from the SELECT response to the next await.
FwSelected ==
    /\ pc = "select_wait"
    /\ phase = "firmware"
    /\ \E rsp \in SelectResponses(payload) :
        /\ Answered
        /\ selected' = rsp
        /\ dev' = [offset |-> rsp.offset, crc |-> rsp.crc]
        /\ LET plan == fw_try_to_recover(rsp) IN
           CASE plan = "return" ->
                   /\ response' = rsp
                   /\ EnterPage(rsp.offset)
                   /\ UNCHANGED strm
             [] plan = "rewind" ->
                   /\ response' = Rewind(rsp)
                   /\ EnterPage(Rewind(rsp).offset)
                   /\ UNCHANGED strm
             [] plan = "stream" ->
                   /\ response' = rsp
                   /\ StartStream(to_send(rsp), rsp.crc, rsp.offset, "fw_recover")
                   /\ UNCHANGED <<i, r>>
             [] OTHER ->
                   /\ response' = rsp
                   /\ Goto("execute", "fw_recover")
                   /\ UNCHANGED <<strm, i, r>>
    /\ UNCHANGED <<rqst, pkg, config, gaveUp, mismatched>>

\* ------------------------------------------------------------- create
\* ObjectData with the page not cut at max_size: firmware[i:].
ObjectData_Uncut ==
    IF phase = "init" THEN payload ELSE SliceFrom(payload, i)

\* data of the page loop: firmware[i : i + max_size]; the whole init packet
\* in send_init_packet.
ObjectData ==
    IF phase = "init" THEN payload ELSE Slice(payload, i, i + response.max_size)

\* cp_cmd(OP_CODE.OBJECT_CREATE, object_type=..., size=len(...)), the first
\* statement of an attempt.
Create ==
    /\ pc = "create"
    /\ cp_cmd(OBJECT_CREATE, <<ObjType, Len(ObjectData)>>)
    /\ Goto("create_wait", site)
    /\ UNCHANGED <<rqst, pkg, config, strm, response, i, r, dev, selected, gaveUp,
                   mismatched>>

\* The cursor an attempt hands to __stream_data: the defaults crc=0,
\* offset=0 for the init packet, (response["crc"], i) for a firmware page.
AttemptCrc == IF phase = "init" THEN Zero ELSE response.crc

\* AttemptOffset with the fresh init upload started at the reported offset.
AttemptOffset_Reported == IF phase = "init" THEN response.offset ELSE i

AttemptOffset == IF phase = "init" THEN 0 ELSE i

\* OBJECT_CREATE answered: the attempt calls __stream_data.
Created ==
    /\ pc = "create_wait"
    /\ Answered
    /\ StartStream(ObjectData, AttemptCrc, AttemptOffset, site)
    /\ UNCHANGED <<rqst, pkg, config, response, i, r, dev, selected, gaveUp, mismatched>>

\* ------------------------------------------------------------- __stream_data
\* NextPacket one byte short: data[i : i + self.packet_size - 1].
NextPacket_OneShort == Slice(data, pos, pos + packet_size - 1)

\* packet = data[i : i + self.packet_size]
NextPacket == Slice(data, pos, pos + packet_size)

\* CheckpointDue with <= for ==: with PRN 0 every fragment is checked.
CheckpointDue_AtLeast(n) == prn <= n

\* `if self.prn == current_pnr`, with current_pnr already incremented to n.
CheckpointDue(n) == prn = n

\* StreamWrite without the await: the write is issued and the fragment loop
\* goes on before it is confirmed.
StreamWrite_NotAwaited ==
    /\ pc = "stream"
    /\ pos < Len(data)
    /\ inflight' = Append(inflight, NextPacket)
    /\ crc' = crc32(NextPacket, crc)
    /\ offset' = offset + Len(NextPacket)
    /\ pos' = pos + packet_size
    /\ IF CheckpointDue(current_pnr + 1)
         THEN current_pnr' = 0 /\ Goto("validate", site)
         ELSE current_pnr' = current_pnr + 1 /\ Goto("stream", site)
    /\ UNCHANGED <<rqst, pkg, config, data, sbase, crc0, offset0, response, i,
                   r, wire, lastCp, dev, selected, gaveUp, mismatched>>

\* One turn of the fragment loop up to its await: the packet is cut and
\* write_gatt_char(C_DFU_PACKET_DATA, packet, response=True) issued.
StreamWrite ==
    /\ pc = "stream"
    /\ pos < Len(data)
    /\ inflight' = Append(inflight, NextPacket)
    /\ Goto("write_wait", site)
    /\ UNCHANGED <<rqst, pkg, config, data, crc, offset, pos, current_pnr,
                   sbase, crc0, offset0, response, i, r, wire, lastCp, dev,
                   selected, gaveUp, mismatched>>

\* The rest of the turn: the write is confirmed, the cursor advanced, and a
\* checkpoint taken when one is due.
StreamWritten ==
    /\ pc = "write_wait"
    /\ inflight # <<>>
    /\ inflight' = Tail(inflight)
    /\ wire' = Append(wire, Packet(Head(inflight)))
    /\ crc' = crc32(Head(inflight), crc)
    /\ offset' = offset + Len(Head(inflight))
    /\ pos' = pos + packet_size
    /\ IF CheckpointDue(current_pnr + 1)
         THEN current_pnr' = 0 /\ Goto("validate", site)
         ELSE current_pnr' = current_pnr + 1 /\ Goto("stream", site)
    /\ UNCHANGED <<rqst, pkg, config, data, sbase, crc0, offset0, response, i,
                   r, lastCp, dev, selected, gaveUp, mismatched>>

\* Validate without the await: the CRC_GET is written and the fragment loop
\* goes on before the response is there.
Validate_NotAwaited ==
    /\ pc = "validate"
    /\ cp_cmd(CRC_GET, <<>>)
    /\ Goto("stream", site)
    /\ UNCHANGED <<rqst, pkg, config, strm, response, i, r, dev, selected, gaveUp,
                   mismatched>>

\* _validate_crc called inside the fragment loop: cp_cmd(OP_CODE.CRC_GET).
Validate ==
    /\ pc = "validate"
    /\ cp_cmd(CRC_GET, <<>>)
    /\ Goto("validate_wait", site)
    /\ UNCHANGED <<rqst, pkg, config, strm, response, i, r, dev, selected, gaveUp,
                   mismatched>>

\* _validate_crc called after the fragment loop.
FinalValidate ==
    /\ pc = "stream"
    /\ pos >= Len(data)
    /\ cp_cmd(CRC_GET, <<>>)
    /\ Goto("final_wait", site)
    /\ UNCHANGED <<rqst, pkg, config, strm, response, i, r, dev, selected, gaveUp,
                   mismatched>>

\* validate_crc without the comparison of the offsets.
validate_crc_CrcOnly(rsp) == crc = rsp.crc

\* The two comparisons of _validate_crc: neither raises.
validate_crc(rsp) == crc = rsp.crc /\ offset = rsp.offset

\* OnValidationException with try_to_recover of send_init_packet calling
\* __stream_data outside a try statement.
OnValidationException_Uncaught ==
    CASE site = "init_recover" ->
            /\ Raise("ValidationException")
            /\ UNCHANGED <<response, i, r, gaveUp>>
      [] site = "fw_recover" ->
            /\ response' =
                 [response EXCEPT
                    !.offset = @ - remainder(response),
                    !.crc = crc32(SliceTo(payload,
                                response.offset - remainder(response)), Zero)]
            /\ EnterPage(response.offset - remainder(response))
            /\ gaveUp' = gaveUp
      [] OTHER ->
            /\ response' = response
            /\ AttemptEnds(TRUE)

\* The except clause that catches a ValidationException raised by
\* __stream_data, by the try statement the call stands in.
OnValidationException ==
    CASE site = "init_recover" ->
            \* try_to_recover returns False: the fresh upload follows
            /\ Goto("create", "init_loop")
            /\ UNCHANGED <<response, i, r, gaveUp>>
      [] site = "fw_recover" ->
            \* remove the corrupted data, then the page loop
            /\ response' =
                 [response EXCEPT
                    !.offset = @ - remainder(response),
                    !.crc = crc32(SliceTo(payload,
                                response.offset - remainder(response)), Zero)]
            /\ EnterPage(response.offset - remainder(response))
            /\ gaveUp' = gaveUp
      [] OTHER ->
            /\ response' = response
            /\ AttemptEnds(TRUE)

\* OnStreamReturn with `response["offset"] += len(to_send)` left out.
OnStreamReturn_NoAdvance ==
    /\ response' =
         CASE site \in {"fw_recover", "fw_loop"} -> [response EXCEPT !.crc = crc]
           [] OTHER -> response
    /\ Goto("execute", site)
    /\ UNCHANGED <<i, r, gaveUp>>

\* __stream_data returns crc to the statement that called it.
OnStreamReturn ==
    /\ response' =
         CASE site = "fw_recover" ->
                 [response EXCEPT !.crc = crc, !.offset = @ + Len(data)]
           [] site = "fw_loop" -> [response EXCEPT !.crc = crc]
           [] OTHER -> response
    /\ Goto("execute", site)
    /\ UNCHANGED <<i, r, gaveUp>>

\* CRC_GET answered inside the fragment loop.
Validated ==
    /\ pc = "validate_wait"
    /\ \E rsp \in CrcResponses(offset, crc) :
        /\ Answered
        /\ dev' = rsp
        /\ mismatched' = (mismatched \/ ~validate_crc(rsp))
        /\ IF validate_crc(rsp)
             THEN Goto("stream", site) /\ UNCHANGED <<response, i, r, gaveUp>>
             ELSE OnValidationException
    /\ UNCHANGED <<rqst, pkg, config, strm, selected>>

\* CRC_GET answered after the fragment loop.
FinalValidated ==
    /\ pc = "final_wait"
    /\ \E rsp \in CrcResponses(offset, crc) :
        /\ Answered
        /\ dev' = rsp
        /\ mismatched' = (mismatched \/ ~validate_crc(rsp))
        /\ IF validate_crc(rsp) THEN OnStreamReturn ELSE OnValidationException
    /\ UNCHANGED <<rqst, pkg, config, strm, selected>>

\* ------------------------------------------------------------- execute
\* cp_cmd(OP_CODE.OBJECT_EXECUTE)
Execute ==
    /\ pc = "execute"
    /\ cp_cmd(OBJECT_EXECUTE, <<>>)
    /\ Goto("execute_wait", site)
    /\ UNCHANGED <<rqst, pkg, config, strm, response, i, r, dev, selected, gaveUp,
                   mismatched>>

\* OBJECT_EXECUTE answered: try_to_recover returns, or the attempt is over.
Executed ==
    /\ pc = "execute_wait"
    /\ Answered
    /\ CASE site = "init_recover" -> Return /\ UNCHANGED <<i, r, gaveUp>>
         [] site = "fw_recover" -> EnterPage(response.offset) /\ gaveUp' = gaveUp
         [] OTHER -> AttemptEnds(FALSE)
    /\ UNCHANGED <<rqst, pkg, config, strm, response, dev, selected, mismatched>>

\* ------------------------------------------------------------- behaviours
Next ==
    \/ Select
    \/ InitSelected
    \/ FwSelected
    \/ Create
    \/ Created
    \/ StreamWrite
    \/ StreamWritten
    \/ Validate
    \/ Validated
    \/ FinalValidate
    \/ FinalValidated
    \/ Execute
    \/ Executed
    \/ CpFails

Spec == Init /\ [][Next]_vars

\* ------------------------------------------------------------- one request
\* One cp_cmd call, byte by byte: the notifications that arrive while it
\* waits, what response_handler keeps of them, and what cp_rxd_unpack makes
\* of the bytes.  Answered and CpFails are the two ways this call ends.

\* OP_CODE, RES_CODE and EXT_ERROR: the byte of a member, and the bytes that
\* are members (the enum's constructor raises ValueError for any other).
OpByte(opcode) ==
    CASE opcode = OBJECT_CREATE -> 1
      [] opcode = CRC_GET -> 3
      [] opcode = OBJECT_EXECUTE -> 4
      [] opcode = OBJECT_SELECT -> 6
RESPONSE == 96
SUCCESS == 1
OPERATION_NOT_PERMITTED == 8
EXT_ERROR == 11
VERIFICATION_FAILED == 12
IsOpCode(b) == b \in (0..4) \cup (6..12) \cup {RESPONSE}
IsResCode(b) == b \in (1..5) \cup {7, 8, 10, 11}
IsExtError(b) == b \in 0..13

\* The value returned, or the exception raised.
Returns(bytes) == [error |-> "none", payload |-> bytes]
Raises(e) == [error |-> e, payload |-> <<>>]

\* cp_rxd_parse_header(opcode, data); data[n] of the code is data[n + 1] here.
cp_rxd_parse_header(opcode, bytes) ==
    IF Len(bytes) < 3 THEN Raises("NrfDfuOperationError")
    ELSE IF ~IsOpCode(bytes[2]) THEN Raises("NrfDfuOperationError")
    ELSE IF bytes[2] # OpByte(opcode) THEN Raises("NrfDfuOperationError")
    ELSE IF ~IsResCode(bytes[3]) THEN Raises("NrfDfuOperationError")
    ELSE IF bytes[3] = EXT_ERROR THEN
        \* missing ext_error code, unknown code, or the code itself
        Raises("NrfDfuOperationError")
    ELSE IF bytes[3] # SUCCESS THEN Raises("NrfDfuOperationError")
    ELSE Returns(SubSeq(bytes, 4, Len(bytes)))

\* struct.unpack "<I" of the four bytes from position k on.
U32(bytes, k) ==
    bytes[k] + 256 * bytes[k + 1] + 65536 * bytes[k + 2]
        + 16777216 * bytes[k + 3]

\* cp_rxd_unpack(opcode, data): struct.unpack raises struct.error unless the
\* payload has the size of its format.
cp_rxd_unpack(opcode, bytes) ==
    LET hdr == cp_rxd_parse_header(opcode, bytes)
        body == hdr.payload
    IN  IF hdr.error # "none" THEN hdr
        ELSE IF opcode = OBJECT_SELECT THEN
            IF Len(body) # 12 THEN Raises("struct.error")
            ELSE Returns([max_size |-> U32(body, 1), offset |-> U32(body, 5),
                          crc |-> U32(body, 9)])
        ELSE IF opcode = CRC_GET THEN
            IF Len(body) # 8 THEN Raises("struct.error")
            ELSE Returns([offset |-> U32(body, 1), crc |-> U32(body, 5)])
        ELSE Returns(body)

\* The notifications a peripheral may send: a header of up to three bytes
\* (marker, opcode, result code), each right or wrong, and after a whole
\* header nothing, an extended error code, or a payload of 8 or 12 bytes.
Markers == {RESPONSE, 0}
OpBytes == {OpByte(OBJECT_CREATE), OpByte(CRC_GET), OpByte(OBJECT_EXECUTE),
            OpByte(OBJECT_SELECT), RESPONSE, 255}
ResBytes == {SUCCESS, OPERATION_NOT_PERMITTED, EXT_ERROR, 0}
Tails == {<<>>, <<VERIFICATION_FAILED>>, <<255>>,
          <<2, 0, 0, 0, 1, 0, 0, 0>>,
          <<4, 0, 0, 0, 2, 0, 0, 0, 1, 0, 0, 0>>}
Frames ==
    {<<>>}
      \cup {<<m>> : m \in Markers}
      \cup {<<m, o>> : m \in Markers, o \in OpBytes}
      \cup {<<m, o, c>> \o t :
              m \in Markers, o \in OpBytes, c \in ResBytes, t \in Tails}

\* _dfu_uuid(n): the characteristics of the DFU service, each by its n.
C_DFU_CONTROL_POINT == 1
C_DFU_PACKET_DATA == 2
cpuuid == C_DFU_CONTROL_POINT

\* The `sender` a notification is handed to response_handler with: the
\* UUID of a characteristic as a str, in upper or in lower case, or a str
\* that is no UUID.
Senders ==
    [form : {"upper", "lower"}, n : {C_DFU_CONTROL_POINT, C_DFU_PACKET_DATA}]
      \cup {[form |-> "other", n |-> 0]}

\* UUID(other): the hex digits are read in either case; -1 stands for the
\* exception a str that is no UUID raises.
UUID(other) == IF other.form \in {"upper", "lower"} THEN other.n ELSE -1

\* _UUIDWithStrCmp.__cmp__(self, other) for a str: self.int - other.int, and
\* -1 when UUID(other) raises.
cmp(self, other) == IF UUID(other) = -1 THEN -1 ELSE self - UUID(other)

\* __ne__ with no comparison made: no sender is unexpected.
ne_Never(self, other) == FALSE

\* _UUIDWithStrCmp.__ne__, which `sender != cpuuid` calls, str having no
\* comparison with a UUID.
ne(self, other) == cmp(self, other) # 0

\* The notification comes from the control-point characteristic.
FromControlPoint(sender) ==
    sender.form \in {"upper", "lower"} /\ sender.n = C_DFU_CONTROL_POINT

\* No operation of the engine is running.
Stopped ==
    /\ phase = "init"
    /\ payload = <<>>
    /\ pc = "done"
    /\ site = "none"
    /\ outcome = "returned"
    /\ response = NoResponse
    /\ i = 0
    /\ r = 0
    /\ data = <<>>
    /\ crc = Zero
    /\ offset = 0
    /\ pos = 0
    /\ current_pnr = 0
    /\ wire = <<>>
    /\ lastCp = NoRequest
    /\ dev = NoReport
    /\ selected = NoResponse
    /\ sbase = 0
    /\ gaveUp = FALSE
    /\ mismatched = FALSE
    /\ crc0 = Zero
    /\ offset0 = 0
    /\ inflight = <<>>

\* The engine is not running: what CpSpec leaves alone.
NoOperation ==
    /\ Stopped
    /\ packet_size = 1
    /\ prn = 0
    /\ NoPackage

\* cp_cmd(opcode, ...) up to its first await: the request packed, the event
\* cleared, rxdata empty.
CpInit ==
    /\ NoOperation
    /\ tx_opcode \in {OBJECT_SELECT, OBJECT_CREATE, CRC_GET, OBJECT_EXECUTE}
    /\ rxdata = <<>>
    /\ evt = FALSE
    /\ ignored = FALSE
    /\ unpacked = [error |-> "pending", payload |-> <<>>]
    /\ subscribed = FALSE
    /\ written = FALSE
    /\ last = NoSender
    /\ cpseen = FALSE
    /\ cpdata = <<>>

Waiting == unpacked.error = "pending"

\* `await self._bleclnt.start_notify(cpuuid, response_handler)`
start_notify ==
    /\ Waiting
    /\ ~subscribed
    /\ subscribed' = TRUE
    /\ UNCHANGED <<engine, pkg, tx_opcode, rxdata, evt, ignored, unpacked,
                   written, heard>>

\* `await self._bleclnt.write_gatt_char(cpuuid, txdata, response=True)`, the
\* statement after start_notify.
write_request ==
    /\ Waiting
    /\ subscribed
    /\ ~written
    /\ written' = TRUE
    /\ UNCHANGED <<engine, pkg, tx_opcode, rxdata, evt, ignored, unpacked,
                   subscribed, heard>>

\* response_handler(sender, data), called for a notification that arrives
\* once the handler is subscribed; the control point notifies in answer to
\* the request, and the waiter resumes before another notification of the
\* control point is handled.
response_handler ==
    /\ Waiting
    /\ subscribed
    /\ \E sender \in Senders, bytes \in Frames :
         /\ FromControlPoint(sender) => written /\ ~cpseen
         /\ last' = sender
         /\ cpseen' = (cpseen \/ FromControlPoint(sender))
         /\ cpdata' = IF FromControlPoint(sender) THEN cpdata \o bytes
                                                  ELSE cpdata
         /\ IF ne(cpuuid, sender)
              THEN ignored' = TRUE /\ UNCHANGED <<rxdata, evt>>
              ELSE /\ rxdata' = rxdata \o bytes
                   /\ evt' = TRUE
                   /\ ignored' = ignored
    /\ UNCHANGED <<engine, pkg, tx_opcode, unpacked, subscribed, written>>

\* `if not await self._evt_opcmd.wait(6): raise NrfDfuOperationError(...)`
WaitTimedOut ==
    /\ Waiting
    /\ written
    /\ ~evt
    /\ unpacked' = Raises("NrfDfuOperationError")
    /\ UNCHANGED <<engine, pkg, tx_opcode, rxdata, evt, ignored, subscribed,
                   written, heard>>

\* `return op_rxd_unpack(opcode, rxdata)`
WaitDone ==
    /\ Waiting
    /\ written
    /\ evt
    /\ unpacked' = cp_rxd_unpack(tx_opcode, rxdata)
    /\ UNCHANGED <<engine, pkg, tx_opcode, rxdata, evt, ignored, subscribed,
                   written, heard>>

CpNext ==
    \/ start_notify
    \/ write_request
    \/ response_handler
    \/ WaitTimedOut
    \/ WaitDone

CpSpec == CpInit /\ [][CpNext]_vars

\* The transport as a whole: an operation of the engine, write by write, or
\* one of its cp_cmd calls, await by await.
TransportInit == Init \/ CpInit

TransportNext == Next \/ CpNext

TransportSpec == TransportInit /\ [][TransportNext]_vars

\* ------------------------------------------------------------- package
\* send_image_package, with the engine's operations run inside it.

\* DfuImagePkg.__init__: the images dict takes the roles the manifest has,
\* in this order.
ROLES == <<"softdevice_bootloader", "softdevice", "bootloader", "application">>
ImagesOf(manifest) == SelectSeq(ROLES, LAMBDA k : k \in manifest)
Manifests == SUBSET {ROLES[k] : k \in 1..Len(ROLES)}

\* str.format: automatic fields ({}) and numbered fields ({0}) in one format
\* string raise ValueError.
Format(fields) ==
    IF "auto" \in {fields[k] : k \in 1..Len(fields)}
       /\ "manual" \in {fields[k] : k \in 1..Len(fields)}
      THEN "ValueError"
      ELSE "str"

\* "Image sent for {} in {0}s".format(name, delta_time)
ImageSentMessage == Format(<<"auto", "manual">>)

\* A DfuDevice with its packet_size and prn, and send_image_package(imgpkg)
\* called on it.
PkgInit ==
    /\ Stopped
    /\ packet_size \in 1..MaxPacket
    /\ prn \in 0..MaxPrn
    /\ NoCall
    /\ \E manifest \in Manifests : images = ImagesOf(manifest)
    /\ ipos = 0
    /\ pkgpc = "loop"
    /\ pkgout = "running"
    /\ phases = <<>>

\* The call send_init_packet(bytes) or send_firmware(bytes), up to its
\* first statement.
BeginCall(ph, bytes) ==
    /\ phase' = ph
    /\ payload' = bytes
    /\ pc' = "select"
    /\ site' = "none"
    /\ outcome' = "running"
    /\ response' = NoResponse
    /\ i' = 0
    /\ r' = 0
    /\ data' = <<>>
    /\ crc' = Zero
    /\ offset' = 0
    /\ pos' = 0
    /\ current_pnr' = 0
    /\ wire' = <<>>
    /\ lastCp' = NoRequest
    /\ dev' = NoReport
    /\ selected' = NoResponse
    /\ sbase' = 0
    /\ gaveUp' = FALSE
    /\ mismatched' = FALSE
    /\ crc0' = Zero
    /\ offset0' = 0
    /\ inflight' = <<>>
    /\ UNCHANGED <<packet_size, prn>>

\* An exception of the operation leaves send_image_package.
Propagate ==
    /\ pkgpc' = "done"
    /\ pkgout' = outcome
    /\ UNCHANGED <<engine, images, ipos, phases>>

\* `for name, image in imgpkg.images.items()`: the next image's init packet
\* is read and send_init_packet called, or the loop is over.
NextImage ==
    /\ pkgpc = "loop"
    /\ IF ipos < Len(images)
         THEN /\ ipos' = ipos + 1
              /\ phases' = Append(phases, <<images[ipos + 1], "init">>)
              /\ pkgpc' = "send_init_packet"
              /\ pkgout' = pkgout
              /\ \E bytes \in Payloads : BeginCall("init", bytes)
         ELSE /\ pkgpc' = "done"
              /\ pkgout' = "returned"
              /\ UNCHANGED <<engine, ipos, phases>>
    /\ UNCHANGED <<rqst, images>>

\* send_init_packet is over: the firmware is read and send_firmware called.
InitPacketSent ==
    /\ pkgpc = "send_init_packet"
    /\ pc = "done"
    /\ IF outcome = "returned"
         THEN /\ phases' = Append(phases, <<images[ipos], "firmware">>)
              /\ pkgpc' = "send_firmware"
              /\ \E bytes \in Payloads : BeginCall("firmware", bytes)
              /\ UNCHANGED <<images, ipos, pkgout>>
         ELSE Propagate
    /\ UNCHANGED <<rqst, images>>

\* send_firmware is over: the time is taken and "Image sent ..." logged,
\* then the loop goes on.
FirmwareSent ==
    /\ pkgpc = "send_firmware"
    /\ pc = "done"
    /\ IF outcome # "returned" THEN Propagate
       ELSE IF ImageSentMessage = "ValueError"
         THEN /\ pkgpc' = "done"
              /\ pkgout' = "ValueError"
              /\ UNCHANGED <<engine, images, ipos, phases>>
         ELSE /\ pkgpc' = "loop"
              /\ UNCHANGED <<engine, images, ipos, pkgout, phases>>
    /\ UNCHANGED <<rqst, images>>

PkgNext ==
    \/ Next
    \/ NextImage
    \/ InitPacketSent
    \/ FirmwareSent

PkgSpec == PkgInit /\ [][PkgNext]_vars

\* ------------------------------------------------------------- claims
\* The operation has returned to its caller without raising.
Returned == pc = "done" /\ outcome = "returned"

\* C1: for a non-empty payload, whenever send_init_packet or send_firmware
\* returns normally, the last control-point exchange it performed was an
\* OBJECT_EXECUTE answered with SUCCESS (so no return follows a failed
\* CRC/offset check without a later successful EXECUTE).
C1_ReturnOnlyAfterExecute ==
    (Returned /\ Len(payload) > 0)
        => lastCp = [op |-> OBJECT_EXECUTE, result |-> "SUCCESS"]

\* C2: after send_firmware(F) returns normally, the device's offset equals
\* len(F) and the device's CRC equals crc32(F).
C2_DeviceHoldsFirmware ==
    (Returned /\ phase = "firmware")
        => dev = [offset |-> Len(payload), crc |-> crc32(payload, Zero)]

\* This step is a CRC_GET response that makes _validate_crc raise
\* ValidationException inside the retry loop of an attempt.
AttemptFailsValidation ==
    /\ pc \in {"validate_wait", "final_wait"}
    /\ site \in {"init_loop", "fw_loop"}
    /\ lastCp'.result = "SUCCESS"
    /\ (dev'.crc # crc \/ dev'.offset # offset)

\* C3: in the fresh-upload loop, when an attempt ends in a ValidationError
\* and fewer than RETRIES_NUMBER attempts were made, the engine starts a new
\* attempt for the same object, beginning with OBJECT_CREATE of the same size.
C3_RetryFromCreate ==
    [][(AttemptFailsValidation /\ r + 1 < RETRIES_NUMBER)
         => /\ pc' = "create"
            /\ site' = site
            /\ r' = r + 1
            /\ i' = i
            /\ ObjectData' = ObjectData]_vars

\* C4: if every attempt made for an object fails validation, the operation
\* fails with the "Failed to send ..." error and does not return normally.
C4_ExhaustionRaises == gaveUp => (pc = "done" /\ outcome = FailedToSend)

\* The OBJECT_SELECT of send_init_packet was answered.
InitSelectAnswered == phase = "init" /\ selected # NoResponse

\* C5: if the init packet is longer than the max_size of the SELECT
\* response, send_init_packet fails with an error and the only write of the
\* run is the OBJECT_SELECT: no data-point write, no CREATE, no EXECUTE.
C5_TooLongSendsNothing ==
    (InitSelectAnswered /\ Len(payload) > selected.max_size)
        => /\ pc = "done"
           /\ outcome = "Exception"
           /\ wire = <<Request(OBJECT_SELECT, <<COMMAND>>)>>

\* C5 happens: a too long init packet, the device holding a valid prefix.
C5_Witness ==
    /\ InitSelectAnswered
    /\ Len(payload) > selected.max_size
    /\ selected.offset > 0
    /\ selected.crc = crc32(SliceTo(payload, selected.offset), Zero)
    /\ outcome = "Exception"

\* This step writes a request to the control point.
CpWriteStep ==
    /\ Len(wire') = Len(wire) + 1
    /\ wire'[Len(wire')].ch = "cp"

\* C6: a control-point write is never issued while an earlier control-point
\* request is outstanding: the earlier one was answered or has failed.
C6_SingleOutstanding == [][CpWriteStep => lastCp.result # "pending"]_vars

\* The control-point requests written so far.
CpRequests == SelectSeq(wire, LAMBDA e : e.ch = "cp")

\* C6 happens: a request is outstanding that follows answered ones, with
\* checkpoints taken inside the fragment loop.
C6_Witness ==
    /\ Len(CpRequests) >= 4
    /\ lastCp.result = "pending"
    /\ pc = "final_wait"
    /\ prn > 0

\* The positions inside __stream_data.
StreamPcs == {"stream", "write_wait", "validate", "validate_wait", "final_wait"}

\* The writes of the running __stream_data call, each by its kind.
StreamWire == SubSeq(wire, sbase + 1, Len(wire))
Kinds(seq) == [k \in 1..Len(seq) |-> IF seq[k].ch = "dp" THEN "dp" ELSE seq[k].op]

\* The number of fragments of the data being streamed.
Fragments == (Len(data) + packet_size - 1) \div packet_size

\* The cadence of C7 for fragments j..F: each fragment, a CRC_GET after it
\* when j is a multiple of N > 0, and one CRC_GET after the last.
RECURSIVE Cadence(_, _, _)
Cadence(j, F, N) ==
    IF j > F THEN <<CRC_GET>>
    ELSE <<"dp">> \o (IF N > 0 /\ j % N = 0 THEN <<CRC_GET>> ELSE <<>>)
                 \o Cadence(j + 1, F, N)

IsPrefix(a, b) == Len(a) <= Len(b) /\ a = SubSeq(b, 1, Len(a))

\* C7: while the checkpoints of one streaming call match, with PRN = N > 0
\* a CRC_GET follows immediately every N-th fragment write and one more
\* follows the last fragment; with PRN = 0 the only CRC_GET is the one after
\* the last fragment.
C7_PrnCadence ==
    pc \in StreamPcs
        => /\ IsPrefix(Kinds(StreamWire), Cadence(1, Fragments, prn))
           /\ pc = "final_wait"
                => Kinds(StreamWire) = Cadence(1, Fragments, prn)

\* C7 happens: four fragments streamed with PRN = 2, the final CRC_GET out.
C7_Witness ==
    /\ pc = "final_wait"
    /\ prn = 2
    /\ Fragments = 4
    /\ Len(SelectSeq(StreamWire, LAMBDA e : e.ch = "cp")) = 3

\* The bytes written to the data point by the writes of seq, in order.
RECURSIVE Bytes(_)
Bytes(seq) ==
    IF seq = <<>> THEN <<>>
    ELSE (IF Head(seq).ch = "dp" THEN Head(seq).arg ELSE <<>>) \o Bytes(Tail(seq))

\* The requests of opcode op among the writes of seq.
Requests(seq, op) == SelectSeq(seq, LAMBDA e : e.ch = "cp" /\ e.op = op)

\* No control-point request of the run has failed (timeout, bad response).
AllAnswered == outcome \notin CpErrors

\* OBJECT_SELECT(COMMAND) reported a resumable init packet.
Resumable ==
    /\ InitSelectAnswered
    /\ 0 < selected.offset
    /\ selected.offset <= Len(payload)
    /\ selected.crc = crc32(SliceTo(payload, selected.offset), Zero)

\* The init packet fits the COMMAND object.
InitFits == Len(payload) <= selected.max_size

\* The resume of C8: no CREATE, the bytes written are those of
\* init[offset:] in order, and the run ends, by a return, with EXECUTE.
InitResumes ==
    /\ Requests(wire, OBJECT_CREATE) = <<>>
    /\ IsPrefix(Bytes(wire), SliceFrom(payload, selected.offset))
    /\ outcome \in {"running", "returned"}
    /\ Requests(wire, OBJECT_EXECUTE) # <<>>
         => /\ Bytes(wire) = SliceFrom(payload, selected.offset)
            /\ wire[Len(wire)] = Request(OBJECT_EXECUTE, <<>>)
            /\ Len(Requests(wire, OBJECT_EXECUTE)) = 1
    /\ Returned => lastCp = [op |-> OBJECT_EXECUTE, result |-> "SUCCESS"]

\* C8 as stated: when SELECT(COMMAND) reports 0 < offset <= len(init) and
\* crc == crc32(init[0:offset]) and every checkpoint matches (every request
\* being answered), send_init_packet issues no OBJECT_CREATE, writes exactly
\* init[offset:] to the data point, then issues OBJECT_EXECUTE and returns.
C8_InitResume_AsStated ==
    (Resumable /\ ~mismatched /\ AllAnswered) => InitResumes

\* C8 amended: the same, for an init packet no longer than the max_size the
\* SELECT response reports.
C8_InitResume ==
    (Resumable /\ InitFits /\ ~mismatched /\ AllAnswered) => InitResumes

\* C8 happens: the missing part, two fragments or more, was streamed with
\* a checkpoint inside the loop, and the call has returned.
C8_Witness ==
    /\ Resumable
    /\ InitFits
    /\ ~mismatched
    /\ Returned
    /\ Len(payload) - selected.offset >= 2
    /\ packet_size = 1
    /\ prn = 1

\* SELECT(COMMAND) reported nothing to resume.
NotResumable ==
    /\ InitSelectAnswered
    /\ \/ selected.offset = 0
       \/ selected.offset > Len(payload)
       \/ selected.crc # crc32(SliceTo(payload, selected.offset), Zero)

\* Streaming the missing part in the recovery attempt raised ValidationError.
RecoveryRaised == Resumable /\ mismatched

\* The fresh upload of C9: OBJECT_CREATE(COMMAND, len(init)) is the next
\* write or was written, no other CREATE was, and what is streamed after it
\* is the init packet from the cursor (0, 0).
FreshUpload ==
    /\ pc = "create" \/ Requests(wire, OBJECT_CREATE) # <<>>
    /\ \A k \in 1..Len(wire) :
          (wire[k].ch = "cp" /\ wire[k].op = OBJECT_CREATE)
              => wire[k].arg = <<COMMAND, Len(payload)>>
    /\ (pc \in StreamPcs /\ site = "init_loop")
          => /\ wire[sbase] = Request(OBJECT_CREATE, <<COMMAND, Len(payload)>>)
             /\ data = payload
             /\ Bytes(StreamWire) = SliceTo(payload, offset)
             /\ offset = Len(Bytes(StreamWire))
             /\ crc = crc32(SliceTo(payload, offset), Zero)
             /\ pc = "final_wait" => offset = Len(payload)

\* C9 as stated: when SELECT(COMMAND) reports offset == 0, or offset >
\* len(init), or a crc different from crc32(init[0:offset]), or when
\* streaming the missing remainder raises ValidationError, send_init_packet
\* issues OBJECT_CREATE(COMMAND, len(init)) and streams the whole init
\* packet from the host cursor (offset 0, crc 0).
C9_InitFresh_AsStated ==
    ((NotResumable \/ RecoveryRaised) /\ AllAnswered) => FreshUpload

\* C9 amended: the same, for an init packet no longer than the max_size the
\* SELECT response reports.
C9_InitFresh ==
    ((NotResumable \/ RecoveryRaised) /\ InitFits /\ AllAnswered) => FreshUpload

\* C9 happens: the recovery attempt failed validation, and the fresh upload
\* has streamed the whole init packet, two bytes or more.
C9_Witness ==
    /\ RecoveryRaised
    /\ site = "init_loop"
    /\ pc = "final_wait"
    /\ Len(payload) >= 2
    /\ Bytes(StreamWire) = payload

\* OBJECT_SELECT(DATA) reported a non-empty object whose CRC is not that of
\* the firmware's prefix.
Corrupted ==
    /\ phase = "firmware"
    /\ selected # NoResponse
    /\ selected.offset > 0
    /\ selected.crc # crc32(SliceTo(payload, selected.offset), Zero)

\* The offset C10 rewinds to.
RewoundOffset ==
    LET rem == selected.offset % selected.max_size
    IN  selected.offset - (IF rem # 0 THEN rem ELSE selected.max_size)

\* C10: when SELECT(DATA) reports offset > 0 and a crc other than
\* crc32(firmware[0:offset]), the host cursor is rewound by offset mod
\* max_size if that is non-zero, else by max_size, to a non-negative
\* multiple of max_size; the host crc becomes crc32(firmware[0:new_offset]);
\* the recovery step streams nothing and issues no EXECUTE; the first
\* OBJECT_CREATE of the main loop is for the page starting at new_offset.
C10_FirmwareRewind ==
    Corrupted
        => /\ RewoundOffset >= 0
           /\ RewoundOffset % selected.max_size = 0
           /\ wire[1] = Request(OBJECT_SELECT, <<DATA>>)
           /\ Len(Requests(wire, OBJECT_CREATE)) = 0
                => /\ Len(wire) = 1
                   /\ i = RewoundOffset
                   /\ response.offset = RewoundOffset
                   /\ response.crc = crc32(SliceTo(payload, RewoundOffset), Zero)
                   /\ pc = "done" => (Returned /\ RewoundOffset >= Len(payload))
           /\ Len(Requests(wire, OBJECT_CREATE)) > 0
                => wire[2] = Request(OBJECT_CREATE,
                       <<DATA, Len(Slice(payload, RewoundOffset,
                                         RewoundOffset + selected.max_size))>>)
           /\ (Len(Requests(wire, OBJECT_CREATE)) = 1 /\ pc = "stream" /\ pos = 0)
                => /\ data = Slice(payload, RewoundOffset,
                                   RewoundOffset + selected.max_size)
                   /\ offset = RewoundOffset
                   /\ crc = crc32(SliceTo(payload, RewoundOffset), Zero)

\* C10 happens: a corrupted tail inside a page after the first, and the
\* page it lies in is being streamed again.
C10_Witness ==
    /\ Corrupted
    /\ selected.offset % selected.max_size # 0
    /\ RewoundOffset > 0
    /\ Len(Requests(wire, OBJECT_CREATE)) = 1
    /\ pc = "stream"
    /\ pos = 0

\* OBJECT_SELECT(DATA) was answered: the device holds selected.offset bytes.
FwSelectAnswered == phase = "firmware" /\ selected # NoResponse

\* The device's CRC is that of the firmware's first selected.offset bytes.
HeldMatches == selected.crc = crc32(SliceTo(payload, selected.offset), Zero)

\* k' as C11 states it: k, rounded down to a multiple of max_size on a
\* CRC mismatch.
RoundedDown ==
    IF HeldMatches THEN selected.offset
    ELSE selected.offset - (selected.offset % selected.max_size)

\* k' as try_to_recover computes it: on a mismatch k less its remainder,
\* and less a whole max_size when the remainder is zero.
ResumePoint == IF HeldMatches THEN selected.offset ELSE RewoundOffset

\* The run writes len(F) - kk bytes to the data point: never more, and
\* that many once it has returned.
Resends(kk) ==
    /\ Len(Bytes(wire)) <= Len(payload) - kk
    /\ Returned => Len(Bytes(wire)) = Len(payload) - kk

\* The device holds k <= len(F) bytes, and every request of the run was
\* answered, every checkpoint with the host's cursor.
PriorRun ==
    /\ FwSelectAnswered
    /\ selected.offset <= Len(payload)
    /\ ~mismatched
    /\ AllAnswered

\* C11 as stated: re-running send_firmware(F) against a device that holds k
\* bytes (and then answers every checkpoint correctly) writes exactly
\* len(F) - k' bytes to the data point, k' being k rounded down to a multiple
\* of max_size when the device CRC mismatches crc32(F[0:k]), and k when it
\* matches.
C11_Idempotence_AsStated == PriorRun => Resends(RoundedDown)

\* C11 amended: the same with k' = k - (k mod max_size), or k - max_size when
\* k mod max_size is zero, on a mismatch; the bytes written are those of
\* F[k':] in order.
C11_Idempotence ==
    PriorRun => /\ Resends(ResumePoint)
                /\ IsPrefix(Bytes(wire), SliceFrom(payload, ResumePoint))

\* C11 happens: a corrupted device image ending on a page boundary, and the
\* run has returned after sending the last page again and what followed.
C11_Witness ==
    /\ PriorRun
    /\ ~HeldMatches
    /\ selected.offset % selected.max_size = 0
    /\ selected.offset < Len(payload)
    /\ Returned
    /\ Len(Bytes(wire)) > Len(payload) - selected.offset

\* C12: in every reachable state of send_init_packet and send_firmware,
\* whatever (max_size, offset, crc) the SELECT response reports, the host's
\* transfer cursor satisfies 0 <= offset <= len(payload).
C12_CursorWithinPayload == 0 <= offset /\ offset <= Len(payload)

\* The writes from k on, and the last OBJECT_CREATE among the writes.
WireFrom(k) == SubSeq(wire, k, Len(wire))
IsCreate(e) == e.ch = "cp" /\ e.op = OBJECT_CREATE
LastCreate == CHOOSE k \in 1..Len(wire) :
                 IsCreate(wire[k]) /\ \A j \in (k + 1)..Len(wire) : ~IsCreate(wire[j])

\* The size C13 gives the object that starts at firmware offset i.
PageSize == Min(selected.max_size, Len(payload) - i)

\* C13: every OBJECT_CREATE(DATA, size) issued by send_firmware has
\* size == min(max_size, len(firmware) - i) > 0, i being the firmware offset
\* at which the object starts, and the bytes streamed into the object are
\* firmware[i : i + size]: a prefix of them while the object is streamed,
\* all of them when its last checkpoint is taken and when it is executed.
C13_PageObjects ==
    (phase = "firmware" /\ site = "fw_loop" /\ pc # "create" /\ pc # "done")
        => /\ PageSize > 0
           /\ wire[LastCreate] = Request(OBJECT_CREATE, <<DATA, PageSize>>)
           /\ IsPrefix(Bytes(WireFrom(LastCreate)), Slice(payload, i, i + PageSize))
           /\ pc \in {"final_wait", "execute", "execute_wait"}
                => Bytes(WireFrom(LastCreate)) = Slice(payload, i, i + PageSize)

\* C13 happens: a firmware sent from its first byte, pages of two fragments,
\* and its last page, shorter than max_size, is about to be executed.
C13_Witness ==
    /\ phase = "firmware"
    /\ site = "fw_loop"
    /\ pc = "execute"
    /\ i > 0
    /\ PageSize < selected.max_size
    /\ packet_size < selected.max_size
    /\ Bytes(wire) = payload

\* C14: a control-point response is accepted (its payload returned to the
\* engine) only if the frame has at least 3 bytes, byte 0 is the RESPONSE
\* marker 0x60, byte 1 is the opcode of the outstanding request and byte 2 is
\* SUCCESS (0x01); a frame violating any of these makes the request fail
\* with an error instead.
C14_AcceptedFrames ==
    (unpacked.error = "none" /\ tx_opcode # "none")
        => /\ Len(rxdata) >= 3
           /\ rxdata[1] = RESPONSE
           /\ rxdata[2] = OpByte(tx_opcode)
           /\ rxdata[3] = SUCCESS

\* C15: any failure of a control-point request other than a ValidationError
\* (response timeout, malformed response, non-success result code) aborts
\* the running send_init_packet / send_firmware: the error propagates to the
\* caller, and the failed request is the last write of the operation.
C15_FailureAborts ==
    lastCp.result = "error"
        => /\ pc = "done"
           /\ outcome \in CpErrors
           /\ wire[Len(wire)].ch = "cp"
           /\ wire[Len(wire)].op = lastCp.op

\* C15 happens: a checkpoint of a later firmware page, inside the retry
\* loop, got no valid response.
C15_Witness ==
    /\ lastCp = [op |-> CRC_GET, result |-> "error"]
    /\ site = "fw_loop"
    /\ i > 0
    /\ outcome = "NrfDfuOperationError"

\* Every way the cp_cmd call of CpSpec fails is one of CpErrors.
CpErrorsOnly == unpacked.error \in {"pending", "none"} \cup CpErrors

\* The calls C16 has for a package: for each image in order, its init
\* packet, then its firmware.
RECURSIVE PhasesOf(_)
PhasesOf(imgs) ==
    IF imgs = <<>> THEN <<>>
    ELSE <<<<Head(imgs), "init">>, <<Head(imgs), "firmware">>>>
             \o PhasesOf(Tail(imgs))

\* The images are in the order softdevice_bootloader, softdevice,
\* bootloader, application.
InRoleOrder(imgs) == imgs = ImagesOf({imgs[k] : k \in 1..Len(imgs)})

\* C16: send_image_package processes the images in the order
\* softdevice_bootloader, softdevice, bootloader, application, for each
\* image the init packet and then the firmware, a phase starting only after
\* the one before it returned; when no phase fails all images are sent and
\* the call returns normally; an error of a phase ends the package.
C16_PackageRun ==
    pkgpc # "none"
        => /\ InRoleOrder(images)
           /\ IsPrefix(phases, PhasesOf(images))
           /\ (pkgpc = "done" /\ pkgout = "returned") => phases = PhasesOf(images)
           /\ (pkgpc = "done" /\ pkgout # "returned")
                => (outcome # "returned" /\ pkgout = outcome)

\* The fragments written by the running __stream_data call.
Written == SelectSeq(StreamWire, LAMBDA e : e.ch = "dp")

\* C17: for every payload P, every packet_size >= 1 and every PRN setting,
\* a streaming call whose checkpoints match writes fragments whose in-order
\* concatenation is P, each of packet_size bytes except possibly a shorter
\* last one; started at (o, c) its CRC is the one-pass crc32(P, c) (crc32(P)
\* for the cursor (0, 0)), which it returns, and it checks offset o + len(P).
C17_StreamedPayload ==
    /\ pc \in StreamPcs
         => /\ \A k \in 1..Len(Written) :
                 Written[k].arg
                     = Slice(data, (k - 1) * packet_size, k * packet_size)
            /\ IsPrefix(Bytes(StreamWire), data)
            /\ crc = crc32(Bytes(StreamWire), crc0)
            /\ offset = offset0 + Len(Bytes(StreamWire))
            /\ pc = "final_wait"
                 => /\ Bytes(StreamWire) = data
                    /\ crc = crc32(data, crc0)
                    /\ offset = offset0 + Len(data)
    /\ (pc = "execute" /\ lastCp.op = CRC_GET
           /\ site \in {"fw_loop", "fw_recover"})
         => response.crc = crc32(data, crc0)

\* C17 happens: three bytes streamed from a cursor inside the payload, in a
\* fragment of two bytes and one of one, with a checkpoint after each.
C17_Witness ==
    /\ pc = "final_wait"
    /\ offset0 > 0
    /\ Len(data) = 3
    /\ packet_size = 2
    /\ prn = 1

\* C18: a ValidationError never escapes the engine: whatever the device
\* does, send_init_packet and send_firmware return or raise an error that
\* is not a ValidationException.
C18_ValidationCaught == outcome # "ValidationException"

\* C18 happens: a checkpoint of the init packet's recovery did not match,
\* and the operation has ended.
C18_Witness ==
    /\ RecoveryRaised
    /\ pc = "done"

\* OBJECT_SELECT(DATA) reported a non-empty object that ends on a page
\* boundary and whose CRC is that of the firmware's prefix.
AtBoundary ==
    /\ FwSelectAnswered
    /\ selected.offset > 0
    /\ selected.offset % selected.max_size = 0
    /\ HeldMatches

\* C19 as stated: when SELECT(DATA) reports offset > 0 with offset mod
\* max_size == 0 and a matching CRC, the recovery step issues no
\* OBJECT_EXECUTE and the engine goes directly into the main loop: its next
\* control-point request is OBJECT_CREATE, or none if offset == len(firmware).
C19_BoundaryResume_AsStated ==
    AtBoundary
        => /\ site # "fw_recover"
           /\ Len(wire) >= 2 => wire[2].op = OBJECT_CREATE
           /\ selected.offset = Len(payload) => Len(wire) = 1

\* C19 amended: in that case the recovery step streams nothing and issues
\* one OBJECT_EXECUTE; once it is answered the engine goes into the main
\* loop: the next request is the OBJECT_CREATE of the page at offset, or none
\* (the operation returns) if offset >= len(firmware).
C19_BoundaryResume ==
    AtBoundary
        => /\ Len(wire) = 1 => (pc = "execute" /\ site = "fw_recover")
           /\ Len(wire) >= 2 => wire[2] = Request(OBJECT_EXECUTE, <<>>)
           /\ (Len(wire) = 2 /\ lastCp.result = "SUCCESS")
                => IF selected.offset < Len(payload)
                     THEN pc = "create" /\ site = "fw_loop" /\ i = selected.offset
                     ELSE Returned
           /\ Len(wire) >= 3
                => /\ selected.offset < Len(payload)
                   /\ wire[3] = Request(OBJECT_CREATE,
                          <<DATA, Min(selected.max_size,
                                      Len(payload) - selected.offset)>>)

\* C19 happens: the device holds the first page, whole and valid, and the
\* second page has been created after the EXECUTE of the recovery step.
C19_Witness ==
    /\ AtBoundary
    /\ selected.offset < Len(payload)
    /\ Len(wire) >= 3
    /\ pc = "stream"

\* C20: at the start of every attempt for the page beginning at firmware
\* offset i (first attempt or retry, after any earlier page's validation
\* failure), the host cursor passed to streaming is (offset = i,
\* crc = crc32(firmware[0:i])).
C20_RunningCrc ==
    (site = "fw_loop" /\ pc \in StreamPcs)
        => /\ offset0 = i
           /\ crc0 = crc32(SliceTo(payload, i), Zero)

\* The write that stands before the OBJECT_EXECUTE the engine is about to
\* issue (pc = "execute") or has issued last (pc = "execute_wait").
AtExecute == pc \in {"execute", "execute_wait"}
BeforeExecute ==
    IF pc = "execute" THEN wire[Len(wire)] ELSE wire[Len(wire) - 1]

\* The peripheral's last report is the host's cursor.
Checked == dev = [offset |-> offset, crc |-> crc]

\* C21 as stated: OBJECT_EXECUTE is issued only from state CHECKED: every
\* OBJECT_EXECUTE is immediately preceded on the control point by a CRC_GET
\* whose reported (offset, crc) matched the host's; never directly after
\* SELECT, after CREATE or after a mismatching CRC_GET.
C21_ExecuteFromChecked_AsStated ==
    AtExecute => /\ BeforeExecute = Request(CRC_GET, <<>>)
                 /\ Checked

\* C21 amended: every OBJECT_EXECUTE is immediately preceded by a CRC_GET
\* whose report matched the host's cursor or, in the recovery step, by the
\* OBJECT_SELECT whose report had offset > 0 and the CRC of
\* payload[0:offset]; never by CREATE or a mismatching CRC_GET.
C21_ExecuteFromChecked ==
    AtExecute
        => \/ /\ BeforeExecute = Request(CRC_GET, <<>>)
              /\ Checked
           \/ /\ BeforeExecute = Request(OBJECT_SELECT, <<ObjType>>)
              /\ site \in {"init_recover", "fw_recover"}
              /\ dev = [offset |-> selected.offset, crc |-> selected.crc]
              /\ selected.offset > 0
              /\ selected.crc = crc32(SliceTo(payload, selected.offset), Zero)

\* C21 happens: a firmware page after the first, checked inside the fragment
\* loop and after it, has its OBJECT_EXECUTE outstanding.
C21_Witness ==
    /\ pc = "execute_wait"
    /\ site = "fw_loop"
    /\ i > 0
    /\ prn = 1
    /\ Len(data) >= 2

\* This step writes the request of cp_cmd to the control point.
RequestWritten == ~written /\ written'

\* This step issues a fragment write on the data point.
FragmentIssued == Len(inflight') > Len(inflight)

\* This step issues a CRC_GET.
CrcGetIssued == CpWriteStep /\ wire'[Len(wire')].op = CRC_GET

\* The fragments issued so far by the running __stream_data call, confirmed
\* or not.
Issued == Written \o [k \in 1..Len(inflight) |-> Packet(inflight[k])]

\* C22: for every control-point request the notification subscription has
\* completed before the request is written, and on the data point each
\* fragment write has completed (write-with-response confirmed) before the
\* next fragment write or the next CRC_GET is issued, so the fragments reach
\* the device strictly in payload order.
C22_TransportOrder ==
    /\ [][RequestWritten => subscribed]_vars
    /\ [][(FragmentIssued \/ CrcGetIssued) => inflight = <<>>]_vars
    /\ [](Len(inflight) <= 1)
    /\ [](pc \in StreamPcs
            => \A k \in 1..Len(Issued) :
                 Issued[k].arg
                     = Slice(data, (k - 1) * packet_size, k * packet_size))

\* C22 happens: with a checkpoint after every fragment, the second fragment
\* is in flight after the first was confirmed and checked.
C22_Witness ==
    /\ pc = "write_wait"
    /\ prn = 1
    /\ Len(Written) = 1
    /\ Len(inflight) = 1
    /\ lastCp = [op |-> CRC_GET, result |-> "SUCCESS"]

\* This step handles a notification of another sender than the control
\* point.
ForeignHandled == last' # last /\ ~FromControlPoint(last')

\* C23: a notification whose sender is not the control-point characteristic
\* never completes an outstanding request and never contributes bytes to
\* its response: with only such notifications arriving the request ends in
\* the timeout error, and the bytes the router hands to the codec are
\* exactly those of the control-point notifications received for the request.
C23_ForeignIgnored ==
    /\ [][ForeignHandled => UNCHANGED <<rxdata, evt, unpacked>>]_vars
    /\ [](rxdata = cpdata)
    /\ [](evt <=> cpseen)
    /\ []((tx_opcode # "none" /\ ~Waiting /\ ~cpseen)
             => unpacked = Raises("NrfDfuOperationError"))
    /\ []((tx_opcode # "none" /\ ~Waiting /\ cpseen)
             => unpacked = cp_rxd_unpack(tx_opcode, cpdata))

\* C23 happens: the request has timed out with notifications of another
\* characteristic handled and none of the control point.
C23_Witness ==
    /\ unpacked = Raises("NrfDfuOperationError")
    /\ ignored
    /\ last = [form |-> "lower", n |-> C_DFU_PACKET_DATA]
    /\ ~cpseen
    /\ rxdata = <<>>

=============================================================================
